---- MODULE Spec2Model ----
(***************************************************************************)
(* Physics/ShaderTypes.h declares one aggregate, Uniforms, shared between  *)
(* the host (Swift/ObjC) and the Metal shader:                             *)
(*                                                                         *)
(*     typedef struct {                                                    *)
(*         matrix_float4x4 projectionMatrix;                               *)
(*         matrix_float4x4 modelViewMatrix;                                *)
(*         vector_float4   color;                                          *)
(*     } Uniforms;                                                         *)
(*                                                                         *)
(* The model keeps an array of Uniforms objects as raw bytes (mem is the    *)
(* sequence of bytes, the byte at address a being mem[a + 1]).  Every field *)
(* access goes through the layout the declaration yields under the C       *)
(* struct-layout rule (members in declared order, each at the next         *)
(* multiple of its alignment, the size rounded up to the struct's          *)
(* alignment), with the simd types the header includes: a float is 4       *)
(* bytes, vector_float4 is 4 floats aligned to its own size, and           *)
(* matrix_float4x4 is an array of 4 vector_float4 columns.  A float value   *)
(* is its object representation: the 4 bytes of its 32-bit pattern,        *)
(* little-endian.  A byte nothing has stored to yet is indeterminate: the   *)
(* memory holds its name instead of a value, and the name stands for any    *)
(* value 0..255, a different one for every name.                            *)
(***************************************************************************)
EXTENDS Integers, Sequences, FiniteSets, TLC

VARIABLES mem, objs, shadow, copied, stores

vars == <<mem, objs, shadow, copied, stores>>

(* ------------------------------ bounds --------------------------------- *)

\* Number of Uniforms objects in the modelled array.
NumInst == 2

\* Stores allowed in one run of SpecElem.
MaxStores == 1

(* ------------------------- the simd scalar types ----------------------- *)

\* sizeof(float): the element type of both simd types.
FloatBytes == 4

\* Lanes of vector_float4.
VecLanes == 4

\* Columns of matrix_float4x4.
MatCols == 4

\* The two compilations of the header.
Sides == {"host", "shader"}

\* What the simd header names resolve to on each side.
TypeName(side, t) ==
    IF side = "host"
    THEN (IF t = "matrix_float4x4" THEN "simd_float4x4" ELSE "simd_float4")
    ELSE (IF t = "matrix_float4x4" THEN "float4x4" ELSE "float4")

\* Mutant: the vector taken for three packed floats (12 bytes).
SizeOfType_Float3(side, t) ==
    LET n == TypeName(side, t) IN
    CASE n = "simd_float4"   -> 3 * FloatBytes
      [] n = "float4"        -> 3 * FloatBytes
      [] n = "simd_float4x4" -> MatCols * (3 * FloatBytes)
      [] n = "float4x4"      -> MatCols * (3 * FloatBytes)

\* sizeof of a simd type
SizeOfType(side, t) ==
    LET n == TypeName(side, t) IN
    CASE n = "simd_float4"   -> VecLanes * FloatBytes
      [] n = "float4"        -> VecLanes * FloatBytes
      [] n = "simd_float4x4" -> MatCols * (VecLanes * FloatBytes)
      [] n = "float4x4"      -> MatCols * (VecLanes * FloatBytes)

\* alignof of a simd type: a vector is aligned to its size, a matrix to its
\* column type.
AlignOfType(side, t) ==
    LET n == TypeName(side, t) IN
    CASE n = "simd_float4"   -> VecLanes * FloatBytes
      [] n = "float4"        -> VecLanes * FloatBytes
      [] n = "simd_float4x4" -> VecLanes * FloatBytes
      [] n = "float4x4"      -> VecLanes * FloatBytes

(* --------------------------- the declaration --------------------------- *)

\* The members in declared order.
Fields == <<"projectionMatrix", "modelViewMatrix", "color">>

FieldNames == {Fields[k] : k \in 1..Len(Fields)}

TypeOf(f) == IF f = "color" THEN "vector_float4" ELSE "matrix_float4x4"

FieldIndex(f) == CHOOSE k \in 1..Len(Fields) : Fields[k] = f

AlignUp(n, a) == ((n + a - 1) \div a) * a

RECURSIVE FieldEnd(_, _)
FieldStart(side, k) ==
    AlignUp(IF k = 1 THEN 0 ELSE FieldEnd(side, k - 1),
            AlignOfType(side, TypeOf(Fields[k])))

FieldEnd(side, k) == FieldStart(side, k) + SizeOfType(side, TypeOf(Fields[k]))

\* The member offsets of each compilation, laid out once.
OffsetTable ==
    [side \in Sides |-> [f \in FieldNames |-> FieldStart(side, FieldIndex(f))]]

\* Mutant: a union-like layout, every member at the start of the object.
OffsetOf_AllAtZero(side, f) == 0

\* offsetof(Uniforms, f)
OffsetOf(side, f) == OffsetTable[side][f]

Max(S) == CHOOSE x \in S : \A y \in S : y <= x

\* alignof(Uniforms)
AlignofUniforms(side) == Max({AlignOfType(side, TypeOf(f)) : f \in FieldNames})

\* sizeof(Uniforms)
SizeofUniforms(side) == AlignUp(FieldEnd(side, Len(Fields)), AlignofUniforms(side))

(* ------------------------- elements of a field ------------------------- *)

\* Columns of a member: a vector is a single column of lanes.
ColsOf(f) == IF TypeOf(f) = "matrix_float4x4" THEN 0..(MatCols - 1) ELSE {0}

RowsOf(f) == 0..(VecLanes - 1)

\* Mutant: rows and columns swapped (row-major storage).
ElemOffset_RowMajor(side, f, c, r) ==
    OffsetOf(side, f) + r * SizeOfType(side, "vector_float4") + c * FloatBytes

\* Offset of m.columns[c][r] (of v[r] for the vector, c = 0) in the object.
ElemOffset(side, f, c, r) ==
    OffsetOf(side, f) + c * SizeOfType(side, "vector_float4") + r * FloatBytes

(* ------------------------------ memory --------------------------------- *)

Insts == 0..(NumInst - 1)

\* The distance between consecutive elements of an array of Uniforms.
Stride == SizeofUniforms("host")

MemSize == NumInst * Stride

\* Mutant: every object at the same address (the copy aliases the original).
BaseOf_Aliased(i) == 0

\* Address of element i of an array of Uniforms.
BaseOf(i) == i * Stride

\* The values of a byte.
Byte == 0..255

\* The indeterminate bytes an execution can meet: those the array holds before
\* anything is stored.
NumNames == MemSize

\* The content of a byte that was never stored to, n in 1..NumNames being its
\* name.  It is kept apart from the values by its sign.
Indeterminate(n) == -n

IsIndeterminate(b) == (-b) \in 1..NumNames

\* What reading the byte can yield: an indeterminate byte reads as any value.
ByteOutcomes(b) == IF IsIndeterminate(b) THEN Byte ELSE {b}

\* The value read from the byte when the indeterminate bytes happen to hold
\* u (u[n] being the value of the byte named n).
ByteValue(b, u) == IF IsIndeterminate(b) THEN u[-b] ELSE b

\* The memory m when the indeterminate bytes happen to hold u.
Resolve(m, u) == SubSeq([n \in 1..Len(m) |-> ByteValue(m[n], u)], 1, Len(m))

\* The contents the indeterminate bytes can happen to have: every assignment
\* of a value to every name.
Contents == [1..NumNames -> Byte]

\* What a byte of memory holds: a value, or the name of an indeterminate byte.
Stored == Byte \cup {Indeterminate(n) : n \in 1..NumNames}

Pow256(k) == CASE k = 0 -> 1 [] k = 1 -> 256 [] k = 2 -> 65536 [] k = 3 -> 16777216

\* Byte k of the little-endian representation of the 32-bit pattern x
\* (x is the pattern read as a two's-complement integer; \div rounds down).
FloatByte(x, k) == (x \div Pow256(k)) % 256

\* The object representation of the float whose 32-bit pattern is x.
FloatRep(x) == [k \in 1..FloatBytes |-> FloatByte(x, k - 1)]

\* The top byte carries the sign of the two's-complement pattern.
Signed(b) == IF b >= 128 THEN b - 256 ELSE b

\* The 32-bit pattern of the float whose object representation is b.
FloatBits(b) == b[1] + b[2] * Pow256(1) + b[3] * Pow256(2) + Signed(b[4]) * Pow256(3)

\* *(float *)a
LoadFloat(m, a) == SubSeq(m, a + 1, a + FloatBytes)

\* Mutant: the store also clears the top byte of the neighbouring lane of
\* the 16-byte vector the float lies in.
StoreFloat_Wide(m, a, x) ==
    [m EXCEPT ![a + 1] = x[1],
              ![a + 2] = x[2],
              ![a + 3] = x[3],
              ![a + 4] = x[4],
              ![(a - (a % 16)) + (((a % 16) + FloatBytes) % 16) + FloatBytes] = 0]

\* *(float *)a = x
StoreFloat(m, a, x) ==
    [m EXCEPT ![a + 1] = x[1],
              ![a + 2] = x[2],
              ![a + 3] = x[3],
              ![a + 4] = x[4]]

(* --------------------------- field access ------------------------------ *)

\* A vector value is <<x, y, z, w>>; a matrix value is 4 such columns.
ElemOf(f, v, c, r) == IF TypeOf(f) = "matrix_float4x4" THEN v[c + 1][r + 1] ELSE v[r + 1]

\* The elements of a member in storage order.
ElemSeq(f) ==
    IF TypeOf(f) = "matrix_float4x4"
    THEN [k \in 1..(MatCols * VecLanes) |-> <<(k - 1) \div VecLanes, (k - 1) % VecLanes>>]
    ELSE [k \in 1..VecLanes |-> <<0, k - 1>>]

\* Column c of member f of the object at base := vec, lane by lane.
StoreVec(side, m, base, f, c, vec) ==
    StoreFloat(
        StoreFloat(
            StoreFloat(
                StoreFloat(m, base + ElemOffset(side, f, c, 0), vec[1]),
                base + ElemOffset(side, f, c, 1), vec[2]),
            base + ElemOffset(side, f, c, 2), vec[3]),
        base + ElemOffset(side, f, c, 3), vec[4])

\* u.f = v on the object at base: a matrix is assigned column by column.
StoreAt(side, m, base, f, v) ==
    IF TypeOf(f) = "matrix_float4x4"
    THEN StoreVec(side,
             StoreVec(side,
                 StoreVec(side,
                     StoreVec(side, m, base, f, 0, v[1]),
                     base, f, 1, v[2]),
                 base, f, 2, v[3]),
             base, f, 3, v[4])
    ELSE StoreVec(side, m, base, f, 0, v)

LoadVec(side, m, base, f, c) ==
    [r \in 1..VecLanes |-> LoadFloat(m, base + ElemOffset(side, f, c, r - 1))]

\* the value of u.f of the object at base
LoadAt(side, m, base, f) ==
    IF TypeOf(f) = "matrix_float4x4"
    THEN [c \in 1..MatCols |-> LoadVec(side, m, base, f, c - 1)]
    ELSE LoadVec(side, m, base, f, 0)

\* Host access to u[i].f
ReadField(m, i, f) == LoadAt("host", m, BaseOf(i), f)

ReadElem(m, i, f, c, r) == LoadFloat(m, BaseOf(i) + ElemOffset("host", f, c, r))

\* The object representation of u[j]: its sizeof(Uniforms) bytes, each a
\* value or the name of an indeterminate byte.  Two representations that are
\* equal are the same bytes whatever the indeterminate ones hold.
ObjBytes(m, j) == SubSeq(m, BaseOf(j) + 1, BaseOf(j) + Stride)

\* memcmp(&u1[j], &u2[i], sizeof(Uniforms)) == 0, u1 being the array in m1
\* and u2 the array in m2, the indeterminate bytes holding u: the comparison
\* reads the bytes, so its answer depends on u wherever one of the two is
\* indeterminate.
SameBytes(m1, j, m2, i, u) ==
    \A n \in 1..Stride :
        ByteValue(m1[BaseOf(j) + n], u) = ByteValue(m2[BaseOf(i) + n], u)

(* ------------------------------ values --------------------------------- *)

\* 32-bit patterns: 0.0f, 1.0f (0x3F800000), -1.0f (0xBF800000), a quiet
\* NaN (0x7FC00000)
Bits == [zero |-> 0, one |-> 1065353216, minusOne |-> -1082130432, nan |-> 2143289344]
F0 == FloatRep(Bits.zero)
F1 == FloatRep(Bits.one)
FNeg1 == FloatRep(Bits.minusOne)
FNaN == FloatRep(Bits.nan)

\* Every 4 bytes are the representation of a float.
AllFloats == [1..FloatBytes -> Byte]

Vec(x, y, z, w) == <<x, y, z, w>>

Identity == <<Vec(F1, F0, F0, F0), Vec(F0, F1, F0, F0), Vec(F0, F0, F1, F0), Vec(F0, F0, F0, F1)>>

\* A translation: column 3 is not the transpose's column 3.
Translate == <<Vec(F1, F0, F0, F0), Vec(F0, F1, F0, F0), Vec(F0, F0, F1, F0), Vec(F1, FNeg1, FNaN, F1)>>

MatVals == {Identity, Translate}

VecVals == {Vec(F1, F0, F0, F1), Vec(F0, FNaN, FNeg1, F0)}

ValsOf(f) == IF TypeOf(f) = "matrix_float4x4" THEN MatVals ELSE VecVals

\* The logical value of a member nothing has assigned yet.
Indet == <<>>

(* --------------------------- the operations ---------------------------- *)

HasNaN(f, v) == \E e \in DOMAIN ElemSeq(f) : ElemOf(f, v, ElemSeq(f)[e][1], ElemSeq(f)[e][2]) = FNaN

\* Mutant: the assignment validates its operand and refuses a NaN.
WriteField_RejectsNaN(i, f, v) ==
    /\ ~HasNaN(f, v)
    /\ shadow' = [shadow EXCEPT ![i][f] = v]
    /\ mem' = StoreAt("host", mem, BaseOf(i), f, v)
    /\ UNCHANGED <<objs, copied, stores>>

\* u[i].f = v
WriteField(i, f, v) ==
    /\ shadow' = [shadow EXCEPT ![i][f] = v]
    /\ mem' = StoreAt("host", mem, BaseOf(i), f, v)
    /\ UNCHANGED <<objs, copied, stores>>

\* The logical value of member f after its element (c, r) := x.
WithElem(f, v, c, r, x) ==
    IF TypeOf(f) = "matrix_float4x4"
    THEN [v EXCEPT ![c + 1][r + 1] = x]
    ELSE [v EXCEPT ![r + 1] = x]

\* u[i].f.columns[c][r] = x (u[i].color[r] = x for the vector, c = 0)
WriteElem(i, f, c, r, x) ==
    /\ stores < MaxStores
    /\ stores' = stores + 1
    /\ shadow' = [shadow EXCEPT ![i][f] = WithElem(f, shadow[i][f], c, r, x)]
    /\ mem' = StoreFloat(mem, BaseOf(i) + ElemOffset("host", f, c, r), x)
    /\ UNCHANGED <<objs, copied>>

\* u[i].f = v, counted among the stores of the run
WriteWhole(i, f, v) ==
    /\ stores < MaxStores
    /\ stores' = stores + 1
    /\ shadow' = [shadow EXCEPT ![i][f] = v]
    /\ mem' = StoreAt("host", mem, BaseOf(i), f, v)
    /\ UNCHANGED <<objs, copied>>

\* memcpy(to, from, n) inside m
CopyBytes(m, from, to, n) ==
    SubSeq(m, 1, to) \o SubSeq(m, from + 1, from + n) \o SubSeq(m, to + n + 1, Len(m))

\* u[j] = u[i]
CopyInst(i, j) ==
    /\ i # j
    /\ shadow' = [shadow EXCEPT ![j] = shadow[i]]
    /\ mem' = CopyBytes(mem, BaseOf(i), BaseOf(j), Stride)
    /\ copied' = TRUE
    /\ UNCHANGED <<objs, stores>>

\* Two objects declared somewhere in the array and not yet assigned.
Init ==
    /\ mem = [n \in 1..MemSize |-> Indeterminate(n)]
    /\ \E a \in Insts, b \in Insts : a < b /\ objs = {a, b}
    /\ shadow = [i \in Insts |-> [f \in FieldNames |-> Indet]]
    /\ copied = FALSE
    /\ stores = 0

Next ==
    \/ \E i \in objs, f \in FieldNames : \E v \in ValsOf(f) : WriteField(i, f, v)
    \/ \E i \in objs, j \in objs : CopyInst(i, j)

Spec == Init /\ [][Next]_vars

\* The values element stores write.
ElemVals == {FNaN}

\* The contents the objects are populated with before the element stores.
Populations ==
    { [projectionMatrix |-> Translate, modelViewMatrix |-> Identity,
       color |-> Vec(F1, F0, F0, F1)],
      [projectionMatrix |-> Identity, modelViewMatrix |-> Translate,
       color |-> Vec(F0, FNaN, FNeg1, F0)] }

\* The object at base assigned all three members.
Populate(m, base, p) ==
    StoreAt("host",
        StoreAt("host",
            StoreAt("host", m, base, "projectionMatrix", p["projectionMatrix"]),
            base, "modelViewMatrix", p["modelViewMatrix"]),
        base, "color", p["color"])

\* Two objects of a zero-initialised array, both populated with the same
\* contents.
InitElem ==
    /\ \E a \in Insts, b \in Insts :
        /\ a < b
        /\ objs = {a, b}
        /\ \E p \in Populations :
            /\ mem = Populate(Populate([n \in 1..MemSize |-> 0], BaseOf(a), p), BaseOf(b), p)
            /\ shadow = [i \in Insts |->
                            IF i \in {a, b} THEN p ELSE [f \in FieldNames |-> Indet]]
    /\ copied = FALSE
    /\ stores = 0

NextElem ==
    \/ \E i \in objs, f \in FieldNames :
        \E c \in ColsOf(f), r \in RowsOf(f) : \E x \in ElemVals : WriteElem(i, f, c, r, x)
    \/ \E i \in objs, f \in FieldNames : \E v \in ValsOf(f) : WriteWhole(i, f, v)

SpecElem == InitElem /\ [][NextElem]_vars

(* ------------------------------ claims --------------------------------- *)

\* Every member of u[i] has been assigned.
Written(i) == \A f \in FieldNames : shadow[i][f] # Indet

\* C1: once projectionMatrix, modelViewMatrix and color of an object have all
\* been written (in whatever order), reading the three fields gives back
\* exactly the values last written to them.
C1_RoundTrip ==
    \A i \in Insts :
        Written(i) => \A f \in FieldNames : ReadField(mem, i, f) = shadow[i][f]

\* An object holding three different values, the two matrices unequal.
C1_Witness ==
    \E i \in Insts :
        /\ shadow[i]["projectionMatrix"] = Translate
        /\ shadow[i]["modelViewMatrix"] = Identity
        /\ shadow[i]["color"] = Vec(F0, FNaN, FNeg1, F0)
        /\ ReadField(mem, i, "projectionMatrix") = Translate
        /\ ReadField(mem, i, "color") = Vec(F0, FNaN, FNeg1, F0)

\* The layout the claim states, as literal numbers.
C2_Offset == [projectionMatrix |-> 0, modelViewMatrix |-> 64, color |-> 128]
C2_Size == [projectionMatrix |-> 64, modelViewMatrix |-> 64, color |-> 16]

\* The numbers the declaration yields on both sides, against the claim's.
C2_Static ==
    /\ \A side \in Sides :
        /\ \A f \in FieldNames :
            /\ OffsetOf(side, f) = C2_Offset[f]
            /\ SizeOfType(side, TypeOf(f)) = C2_Size[f]
            /\ OffsetOf(side, f) % AlignofUniforms(side) = 0
        /\ \A k \in 1..(Len(Fields) - 1) :
            OffsetOf(side, Fields[k + 1])
                = OffsetOf(side, Fields[k]) + SizeOfType(side, TypeOf(Fields[k]))
        /\ SizeofUniforms(side)
                = OffsetOf(side, Fields[Len(Fields)])
                  + SizeOfType(side, TypeOf(Fields[Len(Fields)]))
        /\ SizeofUniforms(side) = 144
        /\ AlignofUniforms(side) = 16
        /\ SizeofUniforms(side) % AlignofUniforms(side) = 0
    /\ \A i \in Insts : BaseOf(i) = 144 * i

\* C2: on the host and on the shader side the members lie in declared order
\* at offsets 0, 64 and 128 with sizes 64, 64 and 16, back to back with no
\* padding between or after them; the object is 144 bytes, aligned to 16, and
\* every offset and the size are multiples of 16.  A value written to a member
\* is found, float by float, in that member's byte range, and the shader-side
\* reading of the same bytes sees the same value.
C2_Layout ==
    /\ C2_Static
    /\ \A i \in Insts, f \in FieldNames :
        shadow[i][f] # Indet =>
            /\ \A k \in DOMAIN ElemSeq(f) :
                LoadFloat(mem, 144 * i + C2_Offset[f] + 4 * (k - 1))
                    = ElemOf(f, shadow[i][f], ElemSeq(f)[k][1], ElemSeq(f)[k][2])
            /\ LoadAt("shader", mem, 144 * i, f) = shadow[i][f]

\* The last object of the array fully written.
C2_Witness ==
    /\ NumInst - 1 \in objs
    /\ Written(NumInst - 1)
    /\ shadow[NumInst - 1]["modelViewMatrix"] = Translate
    /\ LoadAt("shader", mem, BaseOf(NumInst - 1), "modelViewMatrix") = Translate

\* The values of the type of member f, with bytes drawn from B.
FieldTypeOver(f, B) ==
    IF TypeOf(f) = "matrix_float4x4"
    THEN [1..MatCols -> [1..VecLanes -> [1..FloatBytes -> B]]]
    ELSE [1..VecLanes -> [1..FloatBytes -> B]]

FieldType(f) == FieldTypeOver(f, Byte)

\* Under every content, an indeterminate byte reads as a value of a byte.
C5_Outcomes ==
    \A n \in 1..NumNames :
        /\ IsIndeterminate(Indeterminate(n))
        /\ ByteOutcomes(Indeterminate(n)) \subseteq Byte
        /\ ByteOutcomes(Indeterminate(n)) # {}

\* Every float of every field lies inside its object and inside memory.
C5_InBounds ==
    \A i \in Insts, f \in FieldNames :
        \A c \in ColsOf(f), r \in RowsOf(f) :
            /\ BaseOf(i) <= BaseOf(i) + ElemOffset("host", f, c, r)
            /\ BaseOf(i) + ElemOffset("host", f, c, r) + FloatBytes
                    <= BaseOf(i) + SizeofUniforms("host")
            /\ BaseOf(i) + ElemOffset("host", f, c, r) + FloatBytes <= MemSize

\* C5: no access fails.  Memory stays an array of bytes, each a value or
\* indeterminate; every float a field access touches lies inside the object
\* accessed; every read, also of an object never written, yields a value of
\* the field's type whatever the indeterminate bytes hold (what is read has
\* the shape of the type, and each of its bytes is a value or an indeterminate
\* byte, which reads as a value under every content; a member that was
\* assigned reads as a value of the type outright); and in every state every
\* field accepts every value (zero, negative, NaN): no write is refused.
C5_NoFailure ==
    /\ Len(mem) = MemSize
    /\ \A n \in 1..Len(mem) : mem[n] \in Byte \/ IsIndeterminate(mem[n])
    /\ C5_InBounds
    /\ C5_Outcomes
    /\ \A i \in Insts, f \in FieldNames :
        /\ ReadField(mem, i, f) \in FieldTypeOver(f, Stored)
        /\ shadow[i][f] # Indet => ReadField(mem, i, f) \in FieldType(f)
    /\ \A i \in Insts, f \in FieldNames :
        \A v \in ValsOf(f) : ENABLED WriteField(i, f, v)

\* A NaN and a negative value stored and read back, next to a member never
\* assigned that reads as whatever the stack held.
C5_Witness ==
    \E i \in objs :
        /\ shadow[i]["color"] = Vec(F0, FNaN, FNeg1, F0)
        /\ shadow[i]["projectionMatrix"] = Indet
        /\ FloatBits(ReadField(mem, i, "color")[2]) = Bits.nan
        /\ FloatBits(ReadField(mem, i, "color")[3]) = Bits.minusOne
        /\ \A k \in 1..FloatBytes : IsIndeterminate(ReadElem(mem, i, "projectionMatrix", 0, 0)[k])
        /\ ByteOutcomes(mem[BaseOf(i) + 1]) = Byte
        /\ LET ramp == [n \in 1..NumNames |-> (145 + 7 * (n - 1)) % 256]
           IN  /\ ramp \in Contents
               /\ Resolve(mem, ramp)[BaseOf(i) + 1] = (145 + 7 * BaseOf(i)) % 256
               /\ ReadField(Resolve(mem, ramp), i, "color") = Vec(F0, FNaN, FNeg1, F0)

\* The storage of distinct objects does not overlap.
C6_Disjoint ==
    \A i \in Insts, j \in Insts :
        i < j => BaseOf(i) + SizeofUniforms("host") <= BaseOf(j)

\* C6: a copy u[j] = u[i] leaves u[j] with the three field values u[i] had
\* and leaves u[i] as it was (also where u[i] was never assigned: u[j] is
\* then byte for byte what u[i] is, whatever its bytes hold); every write to a field of one object, before or
\* after a copy, leaves every byte of every other object, and so each of its
\* fields, unchanged; and the storage of distinct objects does not overlap.
C6_CopyIsolated ==
    [][ /\ \A i \in Insts, j \in Insts :
            CopyInst(i, j) =>
                /\ \A f \in FieldNames :
                    /\ ReadField(mem', j, f) = ReadField(mem, i, f)
                    /\ ReadField(mem', i, f) = ReadField(mem, i, f)
                /\ ObjBytes(mem', j) = ObjBytes(mem, i)
                /\ ObjBytes(mem', i) = ObjBytes(mem, i)
        /\ \A i \in Insts, f \in FieldNames :
            \A v \in ValsOf(f) :
                WriteField(i, f, v) =>
                    \A j \in Insts \ {i} : ObjBytes(mem', j) = ObjBytes(mem, j)
        /\ C6_Disjoint
      ]_vars

\* After a copy the two objects were written apart: they differ in every
\* field and each still reads back its own values.
C6_Witness ==
    /\ copied
    /\ \E i \in objs, j \in objs :
        /\ Written(i) /\ Written(j)
        /\ \A f \in FieldNames :
            /\ shadow[i][f] # shadow[j][f]
            /\ ReadField(mem, i, f) = shadow[i][f]
            /\ ReadField(mem, j, f) = shadow[j][f]
        /\ \A fill \in {0, 170, 254} :
            ~SameBytes(mem, i, mem, j, [n \in 1..NumNames |-> fill])

\* Base offsets of the two matrices, as the claim states them.
C3_Base == [projectionMatrix |-> 0, modelViewMatrix |-> 64]

Matrices == {f \in FieldNames : TypeOf(f) = "matrix_float4x4"}

\* Where the declaration puts each element, against the claim's formula.
C3_Slots ==
    /\ \A f \in Matrices :
        /\ \A c \in 0..3, r \in 0..3 :
            /\ ElemOffset("host", f, c, r) = C3_Base[f] + 16 * c + 4 * r
            /\ ElemOffset("host", f, c, r) = OffsetOf("host", f) + FloatBytes * (4 * c + r)
            /\ ElemOffset("shader", f, c, r) = C3_Base[f] + 16 * c + 4 * r
        /\ \A c1 \in 0..3, r1 \in 0..3, c2 \in 0..3, r2 \in 0..3 :
            <<c1, r1>> # <<c2, r2>> =>
                \/ ElemOffset("host", f, c1, r1) + FloatBytes <= ElemOffset("host", f, c2, r2)
                \/ ElemOffset("host", f, c2, r2) + FloatBytes <= ElemOffset("host", f, c1, r1)
        /\ UNION { ElemOffset("host", f, c, r)..(ElemOffset("host", f, c, r) + FloatBytes - 1) :
                     c \in 0..3, r \in 0..3 }
                = C3_Base[f]..(C3_Base[f] + 63)

\* C3: both matrices are stored column-major.  The element at row r, column
\* c of a matrix is the float at index 4*c + r of the matrix, at byte offset
\* base + 16*c + 4*r of the object (base 0 for projectionMatrix, 64 for
\* modelViewMatrix): whatever was last assigned to the element, by assigning
\* the matrix or the element, is the float stored there.  Distinct (r, c) have
\* distinct slots, and the 16 slots cover exactly the 64 bytes of the matrix.
C3_ColumnMajor ==
    /\ C3_Slots
    /\ \A i \in objs, f \in Matrices :
        \A c \in 0..3, r \in 0..3 :
            LoadFloat(mem, 144 * i + C3_Base[f] + 16 * c + 4 * r) = shadow[i][f][c + 1][r + 1]

\* An element off the diagonal (row 3 of column 1) assigned on its own, next
\* to the translation column of the matrix it was populated with.
C3_Witness ==
    /\ stores > 0
    /\ \E i \in objs :
        /\ shadow[i]["projectionMatrix"] = [Translate EXCEPT ![2][4] = FNaN]
        /\ LoadFloat(mem, 144 * i + 16 * 1 + 4 * 3) = FNaN
        /\ LoadFloat(mem, 144 * i + 16 * 3 + 4 * 1) = FNeg1
        /\ LoadFloat(mem, 144 * i + 16 * 1 + 4 * 1) = F1

\* C7: a store changes only what it assigns.  Assigning one member sets it
\* and leaves the other two members of the object as they were; assigning
\* one element of a matrix or one component of color sets it and leaves every
\* other element and component of the object as it was; either leaves every
\* other object alone.
C7_FieldsIndependent ==
    [][ /\ \A i \in objs, f \in FieldNames :
            \A v \in ValsOf(f) :
                WriteWhole(i, f, v) =>
                    /\ ReadField(mem', i, f) = v
                    /\ \A g \in FieldNames \ {f} :
                        ReadField(mem', i, g) = ReadField(mem, i, g)
                    /\ \A j \in Insts \ {i} : ObjBytes(mem', j) = ObjBytes(mem, j)
        /\ \A i \in objs, f \in FieldNames :
            \A c \in ColsOf(f), r \in RowsOf(f) :
                \A x \in ElemVals :
                    WriteElem(i, f, c, r, x) =>
                        /\ ReadElem(mem', i, f, c, r) = x
                        /\ \A g \in FieldNames :
                            \A c2 \in ColsOf(g), r2 \in RowsOf(g) :
                                <<g, c2, r2>> # <<f, c, r>> =>
                                    ReadElem(mem', i, g, c2, r2) = ReadElem(mem, i, g, c2, r2)
                        /\ \A j \in Insts \ {i} : ObjBytes(mem', j) = ObjBytes(mem, j)
      ]_vars

\* One element of modelViewMatrix assigned on its own: the rest of the matrix
\* and the other two members still read as populated.
C7_Witness ==
    /\ stores > 0
    /\ \E i \in objs :
        /\ shadow[i]["modelViewMatrix"] = [Identity EXCEPT ![3][2] = FNaN]
        /\ ReadField(mem, i, "modelViewMatrix") = [Identity EXCEPT ![3][2] = FNaN]
        /\ ReadField(mem, i, "projectionMatrix") = Translate
        /\ ReadField(mem, i, "color") = Vec(F1, F0, F0, F1)

====
